---- MODULE Spec2Model ----
(***************************************************************************)
(* yt_idefix: format detection, metadata parsing, version extraction,      *)
(* companion-config validation and the index / field-read life cycle of    *)
(* one dataset.                                                            *)
(*                                                                         *)
(* Text is a sequence of one-character strings.  Two tokens stand for      *)
(* characters that a TLA+ string cannot spell: "ar3" is U+0663             *)
(* (ARABIC-INDIC DIGIT THREE, a decimal digit for Python's \d) and "\n"    *)
(* is the line feed.                                                       *)
(***************************************************************************)
EXTENDS Integers, Sequences, FiniteSets, TLC

VARIABLES
    fn,             \* the candidate file name handed to _is_valid
    header,         \* what read_header does on the file: raises, or its text
    valid,          \* the last _is_valid call: class, outcome
    version,        \* the last _get_idefix_version call
    inifile,        \* the companion configuration (None or its parsed content)
    inicheck,       \* the last _parse_inifile call
    fmeta,          \* what _get_fields_metadata returns for the file
    params,         \* the dataset attributes _parse_parameter_file sets
    fmt,            \* the format variant of the dataset: "dmp" or "vtk"
    phase,          \* where the host is in the life cycle of the dataset
    hierarchy,      \* the IdefixHierarchy under construction or built
    field_offsets,  \* IdefixHierarchy._field_offsets
    last            \* the last host call on the I/O handler and its outcome

vars == <<fn, header, valid, version, inifile, inicheck, fmeta, params,
          fmt, phase, hierarchy, field_offsets, last>>

----------------------------------------------------------------------------
(* Text helpers *)

\* bound: longest run of characters between "dump." and the suffix
MaxRun == 4

\* bound: longest free header text of the version extraction
MaxHeaderLen == 5

RECURSIVE SeqsUpTo(_, _)
SeqsUpTo(S, n) ==
    IF n = 0 THEN {<<>>}
    ELSE LET shorter == SeqsUpTo(S, n - 1)
         IN  shorter \cup {Append(s, c) : s \in {t \in shorter : Len(t) = n - 1}, c \in S}

AsciiDigits == {"0", "1", "2", "3", "4", "5", "6", "7", "8", "9"}
UnicodeDigits == {"ar3"}
AsciiLetters ==
    {"a", "b", "c", "d", "e", "f", "g", "h", "i", "j", "k", "l", "m", "n", "o", "p", "q",
     "r", "s", "t", "u", "v", "w", "x", "y", "z", "D", "E", "F", "I", "P", "X"}

\* str.lower() on the characters in use
Lower(c) ==
    CASE c = "D" -> "d" [] c = "E" -> "e" [] c = "F" -> "f" [] c = "I" -> "i"
      [] c = "P" -> "p" [] c = "X" -> "x" [] OTHER -> c

LowerSeq(s) == [i \in 1..Len(s) |-> Lower(s[i])]

\* `sub in s` for two str
Contains(sub, s) ==
    \E i \in 0..(Len(s) - Len(sub)) : SubSeq(s, i + 1, i + Len(sub)) = sub

\* re: \d on str is any Unicode decimal digit
IsDigit(c) == c \in AsciiDigits \cup UnicodeDigits

\* re: \w on str is any Unicode alphanumeric or the underscore
IsWord(c) == c \in AsciiLetters \cup AsciiDigits \cup UnicodeDigits \cup {"_"}

\* os.path.basename: what follows the last "/"
Basename(p) ==
    LET slashes == {i \in 1..Len(p) : p[i] = "/"}
        i == IF slashes = {} THEN 0 ELSE CHOOSE k \in slashes : \A j \in slashes : j <= k
    IN  SubSeq(p, i + 1, Len(p))

----------------------------------------------------------------------------
(* Format detection: IdefixDmpDataset._is_valid, IdefixVtkDataset._is_valid *)

DumpPrefix == <<"d", "u", "m", "p">>
DmpSuffix == <<".", "d", "m", "p">>
IdefixLower == <<"i", "d", "e", "f", "i", "x">>
IdefixMarker == <<"I", "d", "e", "f", "i", "x">>

\* re.match(r"^(dump)\.\d{4}(\.dmp)$", s): anchored at 0; "$" matches at the
\* end of s and also just before a line feed that ends s
DmpNameMatch(s) ==
    /\ Len(s) >= 13
    /\ SubSeq(s, 1, 4) = DumpPrefix
    /\ s[5] = "."
    /\ \A i \in 6..9 : IsDigit(s[i])
    /\ SubSeq(s, 10, 13) = DmpSuffix
    /\ \/ Len(s) = 13
       \/ Len(s) = 14 /\ s[14] = "\n"

\* the same validator with the try/except left out: the failure of read_header
\* reaches the caller
DmpIsValidNoTry(f, h) ==
    [raised |-> h.raises,
     ret |-> DmpNameMatch(Basename(f)) /\ ~h.raises /\ Contains(IdefixLower, LowerSeq(h.text))]

DmpIsValid(f, h) ==
    LET ok == DmpNameMatch(Basename(f))
    IN  IF h.raises
        THEN [raised |-> FALSE, ret |-> FALSE]
        ELSE [raised |-> FALSE, ret |-> ok /\ Contains(IdefixLower, LowerSeq(h.text))]

VtkIsValid(f, h) ==
    IF h.raises
    THEN [raised |-> FALSE, ret |-> FALSE]
    ELSE [raised |-> FALSE, ret |-> Contains(IdefixMarker, h.text)]

\* candidate file names: directory, prefix, ".", a run of characters, suffix
Dirs == {<<>>, <<"d", "/">>}
Prefixes == {DumpPrefix, <<"x", "d", "u", "m", "p">>, <<"d", "u", "m">>}
RunChars == {"0", "9", "ar3"}
Runs == {r \in SeqsUpTo(RunChars, MaxRun) : Len(r) >= 3}
Suffixes == {DmpSuffix, DmpSuffix \o <<"\n">>, DmpSuffix \o <<"x">>, <<".", "d", "m">>}
FileNames == {d \o p \o <<".">> \o r \o s : d \in Dirs, p \in Prefixes, r \in Runs, s \in Suffixes}

HeaderTexts ==
    { <<"I", "d", "e", "f", "i", "x", " ", "v", "1", ".", "0">>,
      <<"I", "D", "E", "F", "I", "X">>,
      <<"i", "d", "e", "f", "i", "x">>,
      <<"P", "l", "u", "t", "o">>,
      <<"I", "d", "e", "f", "i">>,
      <<>> }

NoHeader == [raises |-> FALSE, text |-> <<>>]
HeaderReads == {[raises |-> TRUE, text |-> <<>>]} \cup {[raises |-> FALSE, text |-> t] : t \in HeaderTexts}

NoValid == [done |-> FALSE, cls |-> "none", raised |-> FALSE, ret |-> FALSE]

IsValidDmp ==
    /\ ~valid.done
    /\ LET r == DmpIsValid(fn, header)
       IN  valid' = [done |-> TRUE, cls |-> "dmp", raised |-> r.raised, ret |-> r.ret]
    /\ UNCHANGED <<fn, header, version, inifile, inicheck, fmeta, params,
                   fmt, phase, hierarchy, field_offsets, last>>

IsValidVtk ==
    /\ ~valid.done
    /\ LET r == VtkIsValid(fn, header)
       IN  valid' = [done |-> TRUE, cls |-> "vtk", raised |-> r.raised, ret |-> r.ret]
    /\ UNCHANGED <<fn, header, version, inifile, inicheck, fmeta, params,
                   fmt, phase, hierarchy, field_offsets, last>>

----------------------------------------------------------------------------
(* Version extraction: _IDEFIX_VERSION_REGEXP, IdefixDmpDataset._get_idefix_version *)

\* [-\w+]: the hyphen, a word character or the plus sign
IsTail(c) == c = "-" \/ c = "+" \/ IsWord(c)

\* whether c belongs to the character class cls: "d" is \d, "t" is [-\w+]
InClass(cls, c) == IF cls = "d" THEN IsDigit(c) ELSE IsTail(c)

\* the end of the longest run of characters of class cls that starts at i
\* (i - 1 when the run is empty): what a greedy \d+, \d* or [...]* consumes
RunEnd(s, i, cls) ==
    CHOOSE j \in (i - 1)..Len(s) :
        /\ \A k \in i..j : InClass(cls, s[k])
        /\ j = Len(s) \/ ~InClass(cls, s[j + 1])

\* r"v\d+\.\d+\.?\d*[-\w+]*" tried at position i: the last position of the
\* match, or 0 when there is none.  Every quantifier is greedy, and giving a
\* character back never helps: each run is followed by a character outside it.
VersionMatchEnd(s, i) ==
    IF i > Len(s) \/ s[i] # "v" THEN 0
    ELSE LET a == RunEnd(s, i + 1, "d")
         IN  IF a < i + 1 \/ a + 1 > Len(s) \/ s[a + 1] # "." THEN 0
             ELSE LET b == RunEnd(s, a + 2, "d")
                  IN  IF b < a + 2 THEN 0
                      ELSE LET c == IF b + 1 <= Len(s) /\ s[b + 1] = "." THEN b + 1 ELSE b
                               d == RunEnd(s, c + 1, "d")
                           IN  RunEnd(s, d + 1, "t")

\* re.search: the match at the leftmost position that has one
VersionSearch(s) ==
    LET starts == {i \in 1..Len(s) : VersionMatchEnd(s, i) # 0}
    IN  IF starts = {} THEN [found |-> FALSE, group |-> <<>>]
        ELSE LET i == CHOOSE k \in starts : \A j \in starts : k <= j
             IN  [found |-> TRUE, group |-> SubSeq(s, i, VersionMatchEnd(s, i))]

Unknown == <<"u", "n", "k", "n", "o", "w", "n">>

\* the same function searching for the token without its leading "v"
GetIdefixVersionSkipV(h) ==
    LET m == VersionSearch(h.text)
    IN  IF h.raises THEN [raised |-> TRUE, warned |-> FALSE, value |-> <<>>]
        ELSE IF ~m.found THEN [raised |-> FALSE, warned |-> TRUE, value |-> Unknown]
        ELSE [raised |-> FALSE, warned |-> FALSE, value |-> Tail(m.group)]

GetIdefixVersion(h) ==
    LET m == VersionSearch(h.text)
    IN  IF h.raises THEN [raised |-> TRUE, warned |-> FALSE, value |-> <<>>]
        ELSE IF ~m.found THEN [raised |-> FALSE, warned |-> TRUE, value |-> Unknown]
        ELSE [raised |-> FALSE, warned |-> FALSE, value |-> m.group]

VersionChars == {"v", "1", ".", "-", "a"}

\* "Idefix 1.2.3-dev build"
HeaderDev ==
    <<"I", "d", "e", "f", "i", "x", " ", "1", ".", "2", ".", "3", "-", "d", "e", "v",
      " ", "b", "u", "i", "l", "d">>
\* "Idefix v1.2.3-dev build"
HeaderVDev ==
    <<"I", "d", "e", "f", "i", "x", " ", "v", "1", ".", "2", ".", "3", "-", "d", "e", "v",
      " ", "b", "u", "i", "l", "d">>
\* "Idefix unknown build"
HeaderUnknown ==
    <<"I", "d", "e", "f", "i", "x", " ", "u", "n", "k", "n", "o", "w", "n",
      " ", "b", "u", "i", "l", "d">>
\* "rev1.2..3 v9.9"
HeaderTwo ==
    <<"r", "e", "v", "1", ".", "2", ".", ".", "3", " ", "v", "9", ".", "9">>
\* "Idefix v0.8.1-12-gab+x Dump"
HeaderGit ==
    <<"I", "d", "e", "f", "i", "x", " ", "v", "0", ".", "8", ".", "1", "-", "1", "2",
      "-", "g", "a", "b", "+", "x", " ", "D", "u", "m", "p">>

VersionHeaders ==
    SeqsUpTo(VersionChars, MaxHeaderLen)
        \cup {HeaderDev, HeaderVDev, HeaderUnknown, HeaderTwo, HeaderGit}

NoVersion == [done |-> FALSE, raised |-> FALSE, warned |-> FALSE, value |-> <<>>]

GetVersion ==
    /\ ~version.done
    /\ LET r == GetIdefixVersion(header)
       IN  version' = [done |-> TRUE, raised |-> r.raised, warned |-> r.warned,
                       value |-> r.value]
    /\ UNCHANGED <<fn, header, valid, inifile, inicheck, fmeta, params,
                   fmt, phase, hierarchy, field_offsets, last>>

----------------------------------------------------------------------------
(* Companion configuration: IdefixDataset._parse_inifile *)

\* bound: most blocks an axis of the Grid section declares
MaxBlocks == 2

Axes == <<"X1-grid", "X2-grid", "X3-grid">>
Modes == {"u", "l"}

\* one entry of the Grid section as inifix loads it:
\* [nblocks, x0, (ncells, mode, xend) for each block]
RECURSIVE BlockEntries(_)
BlockEntries(modes) ==
    IF modes = <<>> THEN <<>>
    ELSE <<4, Head(modes), 1>> \o BlockEntries(Tail(modes))

GridVals(n, modes) == <<n, 0>> \o BlockEntries(modes)

AxisVals ==
    UNION {{GridVals(n, modes) : modes \in {m \in SeqsUpTo(Modes, MaxBlocks) : Len(m) = n}} :
           n \in 0..MaxBlocks}

\* vals[3::3]
EveryThirdFrom3(vals) == [k \in 1..((Len(vals) - 1) \div 3) |-> vals[3 * k + 1]]

\* the same check reading the spacing mode of the first block only (vals[3])
AxisIssuesFirstBlockOnly(ax, vals) ==
    (IF vals[1] > 1 THEN <<[kind |-> "multiple blocks", ax |-> ax]>> ELSE <<>>)
    \o (IF Len(vals) >= 4 /\ vals[4] # "u"
        THEN <<[kind |-> "non-uniform", ax |-> ax]>> ELSE <<>>)

\* the messages one (ax, vals) item of the Grid section appends to msg_elems
AxisIssues(ax, vals) ==
    (IF vals[1] > 1 THEN <<[kind |-> "multiple blocks", ax |-> ax]>> ELSE <<>>)
    \o (IF \E k \in DOMAIN EveryThirdFrom3(vals) : EveryThirdFrom3(vals)[k] # "u"
        THEN <<[kind |-> "non-uniform", ax |-> ax]>> ELSE <<>>)

RECURSIVE MsgElems(_, _)
MsgElems(grid, k) ==
    IF k > Len(Axes) THEN <<>>
    ELSE AxisIssues(Axes[k], grid[Axes[k]]) \o MsgElems(grid, k + 1)

\* _parse_inifile: the exception it ends with ("" when it returns) and the
\* warnings it emits, in order
ParseInifile(ini) ==
    IF ~ini.given
    THEN [raised |-> "", warnings |-> <<[kind |-> "cannot validate", elems |-> <<>>]>>]
    ELSE IF ~ini.hasGrid
    THEN [raised |-> "KeyError", warnings |-> <<>>]
    ELSE LET msg_elems == MsgElems(ini.grid, 1)
         IN  [raised |-> "",
              warnings |-> IF Len(msg_elems) > 0
                           THEN <<[kind |-> "unsupported grid", elems |-> msg_elems]>>
                           ELSE <<>>]

UniformGrid == [ax \in {Axes[k] : k \in 1..Len(Axes)} |-> GridVals(1, <<"u">>)]
NoInifile == [given |-> FALSE, hasGrid |-> FALSE, grid |-> UniformGrid]
Inifiles ==
    {NoInifile, [given |-> TRUE, hasGrid |-> FALSE, grid |-> UniformGrid]}
        \cup {[given |-> TRUE, hasGrid |-> TRUE, grid |-> g] :
                g \in [{Axes[k] : k \in 1..Len(Axes)} -> AxisVals]}

NoInicheck == [done |-> FALSE, raised |-> "", warnings |-> <<>>]

CheckInifile ==
    /\ ~inicheck.done
    /\ LET r == ParseInifile(inifile)
       IN  inicheck' = [done |-> TRUE, raised |-> r.raised, warnings |-> r.warnings]
    /\ UNCHANGED <<fn, header, valid, version, inifile, fmeta, params,
                   fmt, phase, hierarchy, field_offsets, last>>

----------------------------------------------------------------------------
(* Metadata: IdefixDataset._parse_parameter_file *)

\* bound: largest number of cells along an axis
MaxExtent == 3

\* bound: largest geometry code a file holds
MaxGeometry == 5

Extents == 1..MaxExtent
GeometryCodes == 0..MaxGeometry

\* enum_geoms
EnumGeoms ==
    [c \in 1..4 |-> CASE c = 1 -> "cartesian" [] c = 2 -> "cylindrial"
                      [] c = 3 -> "polar" [] c = 4 -> "spherical"]

\* np.count_nonzero
RECURSIVE CountNonzero(_)
CountNonzero(a) ==
    IF a = <<>> THEN 0
    ELSE (IF Head(a) # 0 THEN 1 ELSE 0) + CountNonzero(Tail(a))

\* the same count taken on domain_dimensions itself
DimensionalityNoShift(dims) == CountNonzero(dims)

\* np.count_nonzero(self.domain_dimensions - 1)
Dimensionality(dims) == CountNonzero([i \in 1..Len(dims) |-> dims[i] - 1])

\* _parse_parameter_file on the metadata m = (fprops, fdata): the attributes it
\* has set when it returns or raises ("unset": never assigned)
ParseParameterFile(m) ==
    LET domain_dimensions == <<m.x1, m.x2, m.x3>>
        known == m.geometry \in DOMAIN EnumGeoms
    IN  [raised |-> IF known THEN "" ELSE "KeyError",
         domain_dimensions |-> domain_dimensions,
         dimensionality |-> Dimensionality(domain_dimensions),
         geometry |-> IF known THEN EnumGeoms[m.geometry] ELSE "unset"]

Metadata == [x1 : Extents, x2 : Extents, x3 : Extents, geometry : GeometryCodes]
NoMetadata == [x1 |-> 1, x2 |-> 1, x3 |-> 1, geometry |-> 1]

NoParams ==
    [done |-> FALSE, raised |-> "", domain_dimensions |-> <<>>, dimensionality |-> 0,
     geometry |-> "unset"]

ParseMetadata ==
    /\ ~params.done
    /\ LET r == ParseParameterFile(fmeta)
       IN  params' = [done |-> TRUE, raised |-> r.raised,
                      domain_dimensions |-> r.domain_dimensions,
                      dimensionality |-> r.dimensionality, geometry |-> r.geometry]
    /\ UNCHANGED <<fn, header, valid, version, inifile, inicheck, fmeta,
                   fmt, phase, hierarchy, field_offsets, last>>

----------------------------------------------------------------------------
(* The two format variants and the operations each implements *)

Formats == {"dmp", "vtk"}

\* whether the classes of variant f define the format-specific operation op
\* (an @abstractmethod left undefined makes the class abstract)
Implemented(f, op) ==
    CASE op = "_get_field_offset_index" -> TRUE
      [] op = "_get_fields_metadata" -> f = "dmp"
      [] op = "_get_idefix_version" -> f = "dmp"
      [] op = "_read_single_field" -> f = "dmp"

DatasetOps == {"_get_fields_metadata", "_get_idefix_version"}
HierarchyOps == {"_get_field_offset_index"}
HandlerOps == {"_read_single_field"}
FormatOps == DatasetOps \cup HierarchyOps \cup HandlerOps

\* instantiating a class with an abstract method left raises TypeError
CanInstantiate(f, ops) == \A op \in ops : Implemented(f, op)

----------------------------------------------------------------------------
(* The file of the life cycle: its field arrays and where they lie *)

\* bound: most fields one _read_fluid_selection call asks for
MaxFields == 2

FieldNames == {"Vc-RHO", "Vc-VX1", "Vs-BX1s"}
\* the values a cell of a field array, or of fresh memory, holds
CellValues == {0, 1}

\* the byte offset of each field array, as the offset scanner finds it
GetFieldOffsetIndex(f) ==
    [name \in FieldNames |-> CASE name = "Vc-RHO" -> 100 [] name = "Vc-VX1" -> 200
                               [] OTHER -> 300]

\* the array stored at a byte offset of a file of ncells cells
ReadSingleField(offset, ncells) ==
    [c \in 1..ncells |-> CASE offset = 100 -> c % 2 [] offset = 200 -> (c + 1) % 2
                            [] OTHER -> 1]

Unset == [set |-> FALSE, index |-> [name \in {} |-> 0]]

\* _parse_index that scans the offsets and does not keep them
ParseIndexOffsetsDropped(f) == Unset

\* what _parse_index leaves in self._field_offsets
ParseIndexOffsets(f) == [set |-> TRUE, index |-> GetFieldOffsetIndex(f)]

NoHierarchy == [num_grids |-> 0, grid_dimensions |-> <<>>, grid_levels |-> 0,
                max_level |-> 0, grids |-> 0]

----------------------------------------------------------------------------
(* Field reads: IdefixIOHandler._read_fluid_selection *)

Min(a, b) == IF a <= b THEN a ELSE b

RECURSIVE Ascending(_)
Ascending(S) ==
    IF S = {} THEN <<>>
    ELSE LET m == CHOOSE x \in S : \A y \in S : x <= y
         IN  <<m>> \o Ascending(S \ {m})

\* source[mask]: the selected cells of an array, in cell order
Selected(mask, source) == [k \in 1..Cardinality(mask) |-> source[Ascending(mask)[k]]]

\* grid.select(selector, source, dest, offset):
\*   count = number of selected cells; 0 -> return 0
\*   dest[offset : offset + count] = source[mask]; return count
\* The slice is clipped to dest; numpy fills it when it has count elements,
\* broadcasts a single value over it (over no element when it is empty),
\* and raises ValueError otherwise.
Select(mask, source, dest, offset) ==
    LET count == Cardinality(mask)
        lo == Min(offset, Len(dest))
        hi == Min(offset + count, Len(dest))
        sel == Selected(mask, source)
    IN  IF count = 0 THEN [raised |-> "", dest |-> dest, count |-> 0]
        ELSE IF hi - lo = count
        THEN [raised |-> "", count |-> count,
              dest |-> [i \in 1..Len(dest) |-> IF lo < i /\ i <= hi THEN sel[i - lo] ELSE dest[i]]]
        ELSE IF count = 1
        THEN [raised |-> "", count |-> count,
              dest |-> [i \in 1..Len(dest) |-> IF lo < i /\ i <= hi THEN sel[1] ELSE dest[i]]]
        ELSE [raised |-> "ValueError", dest |-> dest, count |-> 0]

\* the body of the loop `for field in fields` from the k-th field on, for the
\* one grid of the one chunk.  `fresh` gives the content of each np.empty
\* buffer; `offset` is carried from field to field as the code carries it.
RECURSIVE ReadFields(_, _, _, _, _, _, _, _)
ReadFields(fields, k, data, offset, mask, fresh, offs, ncells) ==
    IF k > Len(fields) THEN [raised |-> "", returned |-> TRUE, data |-> data]
    ELSE IF ~offs.set
    THEN [raised |-> "AttributeError", returned |-> FALSE, data |-> data]
    ELSE LET fname == fields[k]
             values == ReadSingleField(offs.index[fname], ncells)
             r == Select(mask, values, fresh[k], offset)
         IN  IF r.raised # ""
             THEN [raised |-> r.raised, returned |-> FALSE, data |-> data]
             ELSE ReadFields(fields, k + 1, (fname :> r.dest) @@ data, offset + r.count,
                             mask, fresh, offs, ncells)

EmptyData == [name \in {} |-> <<>>]

\* _read_fluid_selection(chunks, selector, fields, size)
ReadFluidSelectionResult(fields, mask, fresh, offs, ncells) ==
    ReadFields(fields, 1, EmptyData, 0, mask, fresh, offs, ncells)

\* _read_particle_coords / _read_particle_fields returning no particles
ReadParticlesEmpty(chunks, ptf) == [raised |-> "", returned |-> TRUE]

\* _read_particle_coords(chunks, ptf), _read_particle_fields(chunks, ptf, selector)
ReadParticles(chunks, ptf) == [raised |-> "NotImplementedError", returned |-> FALSE]

----------------------------------------------------------------------------
(* The life cycle of one dataset, as the host drives it:                    *)
(* _is_valid -> __init__ (_parse_parameter_file, _parse_inifile) ->         *)
(* index (_count_grids, _parse_index, _populate_grid_objects) ->            *)
(* I/O handler -> reads                                                     *)

NoCall == [op |-> "none", raised |-> "", returned |-> FALSE, fields |-> <<>>,
           mask |-> {}, data |-> EmptyData]

DumpName == DumpPrefix \o <<".", "0", "0", "0", "0">> \o DmpSuffix
LifeFileNames == {DumpName, <<"d", "a", "t", "a", ".", "v", "t", "k">>}
LifeHeaders ==
    {[raises |-> TRUE, text |-> <<>>],
     [raises |-> FALSE, text |-> HeaderGit],
     [raises |-> FALSE, text |-> <<"P", "l", "u", "t", "o">>]}
LifeMetadata == [x1 : 1..2, x2 : {1}, x3 : {1}, geometry : {0, 1}]
LifeInifiles ==
    {NoInifile,
     [given |-> TRUE, hasGrid |-> FALSE, grid |-> UniformGrid],
     [given |-> TRUE, hasGrid |-> TRUE, grid |-> UniformGrid]}

\* the host asks the variant's class whether the file is its own
Probe ==
    /\ phase = "file"
    /\ LET r == IF fmt = "dmp" THEN DmpIsValid(fn, header) ELSE VtkIsValid(fn, header)
       IN  /\ valid' = [done |-> TRUE, cls |-> fmt, raised |-> r.raised, ret |-> r.ret]
           /\ phase' = IF r.raised THEN "failed" ELSE IF r.ret THEN "accepted" ELSE "rejected"
    /\ UNCHANGED <<fn, header, version, inifile, inicheck, fmeta, params,
                   fmt, hierarchy, field_offsets, last>>

\* IdefixDataset.__init__: the class is instantiated, Dataset.__init__ runs
\* _parse_parameter_file, then _parse_inifile runs
ConstructDataset ==
    /\ phase = "accepted"
    /\ IF ~CanInstantiate(fmt, DatasetOps)
       THEN /\ phase' = "abstract"
            /\ UNCHANGED <<version, params, inicheck>>
       ELSE LET v == GetIdefixVersion(header)
                p == ParseParameterFile(fmeta)
                i == ParseInifile(inifile)
            IN  /\ version' = [done |-> TRUE, raised |-> v.raised, warned |-> v.warned,
                               value |-> v.value]
                /\ params' = [done |-> TRUE, raised |-> p.raised,
                              domain_dimensions |-> p.domain_dimensions,
                              dimensionality |-> p.dimensionality, geometry |-> p.geometry]
                /\ IF p.raised # ""
                   THEN phase' = "failed" /\ UNCHANGED inicheck
                   ELSE /\ inicheck' = [done |-> TRUE, raised |-> i.raised,
                                        warnings |-> i.warnings]
                        /\ phase' = IF i.raised # "" THEN "failed" ELSE "dataset"
    /\ UNCHANGED <<fn, header, valid, inifile, fmeta, fmt, hierarchy, field_offsets, last>>

\* IdefixHierarchy.__init__ up to and including _count_grids
CountGrids ==
    /\ phase = "dataset"
    /\ IF ~CanInstantiate(fmt, HierarchyOps)
       THEN phase' = "abstract" /\ UNCHANGED hierarchy
       ELSE /\ hierarchy' = [NoHierarchy EXCEPT !.num_grids = 1]
            /\ phase' = "counted"
    /\ UNCHANGED <<fn, header, valid, version, inifile, inicheck, fmeta, params,
                   fmt, field_offsets, last>>

\* _parse_index; open() may fail, and then the index under construction is lost
ParseIndex ==
    /\ phase = "counted"
    /\ \E opened \in BOOLEAN :
          IF opened
          THEN /\ hierarchy' = [hierarchy EXCEPT !.grid_dimensions = params.domain_dimensions,
                                                 !.grid_levels = 1, !.max_level = 1]
               /\ field_offsets' = ParseIndexOffsets(fmt)
               /\ phase' = "parsed"
          ELSE /\ hierarchy' = NoHierarchy
               /\ field_offsets' = Unset
               /\ phase' = "dataset"
    /\ UNCHANGED <<fn, header, valid, version, inifile, inicheck, fmeta, params, fmt, last>>

\* _populate_grid_objects
PopulateGridObjects ==
    /\ phase = "parsed"
    /\ hierarchy' = [hierarchy EXCEPT !.grids = hierarchy.num_grids]
    /\ phase' = "populated"
    /\ UNCHANGED <<fn, header, valid, version, inifile, inicheck, fmeta, params,
                   fmt, field_offsets, last>>

\* IdefixIOHandler.__init__
SetupDataIO ==
    /\ phase = "populated"
    /\ phase' = IF CanInstantiate(fmt, HandlerOps) THEN "ready" ELSE "abstract"
    /\ UNCHANGED <<fn, header, valid, version, inifile, inicheck, fmeta, params,
                   fmt, hierarchy, field_offsets, last>>

NCells == hierarchy.grid_dimensions[1] * hierarchy.grid_dimensions[2] * hierarchy.grid_dimensions[3]
\* the host asks for each field once
FieldLists ==
    {fs \in SeqsUpTo(FieldNames, MaxFields) :
        \A i, j \in 1..Len(fs) : fs[i] = fs[j] => i = j}

ReadFluidSelection ==
    /\ phase = "ready"
    /\ \E fields \in FieldLists, mask \in SUBSET (1..NCells) :
         \E fresh \in [1..Len(fields) -> [1..Cardinality(mask) -> CellValues]] :
            LET r == ReadFluidSelectionResult(fields, mask, fresh, field_offsets, NCells)
            IN  last' = [op |-> "_read_fluid_selection", raised |-> r.raised,
                         returned |-> r.returned, fields |-> fields, mask |-> mask,
                         data |-> IF r.returned THEN r.data ELSE EmptyData]
    /\ UNCHANGED <<fn, header, valid, version, inifile, inicheck, fmeta, params,
                   fmt, phase, hierarchy, field_offsets>>

ReadParticleCoords ==
    /\ phase = "ready"
    /\ \E chunks \in 0..1, ptf \in {"none", "io"} :
          LET r == ReadParticles(chunks, ptf)
          IN  last' = [NoCall EXCEPT !.op = "_read_particle_coords", !.raised = r.raised,
                                     !.returned = r.returned]
    /\ UNCHANGED <<fn, header, valid, version, inifile, inicheck, fmeta, params,
                   fmt, phase, hierarchy, field_offsets>>

ReadParticleFields ==
    /\ phase = "ready"
    /\ \E chunks \in 0..1, ptf \in {"none", "io"} :
          LET r == ReadParticles(chunks, ptf)
          IN  last' = [NoCall EXCEPT !.op = "_read_particle_fields", !.raised = r.raised,
                                     !.returned = r.returned]
    /\ UNCHANGED <<fn, header, valid, version, inifile, inicheck, fmeta, params,
                   fmt, phase, hierarchy, field_offsets>>

----------------------------------------------------------------------------
(* Specifications *)

Init ==
    /\ fn \in LifeFileNames
    /\ header \in LifeHeaders
    /\ valid = NoValid
    /\ version = NoVersion
    /\ inifile \in LifeInifiles
    /\ inicheck = NoInicheck
    /\ fmeta \in LifeMetadata
    /\ params = NoParams
    /\ fmt \in Formats
    /\ phase = "file"
    /\ hierarchy = NoHierarchy
    /\ field_offsets = Unset
    /\ last = NoCall

Next ==
    \/ Probe
    \/ ConstructDataset
    \/ CountGrids
    \/ ParseIndex
    \/ PopulateGridObjects
    \/ SetupDataIO
    \/ ReadFluidSelection
    \/ ReadParticleCoords
    \/ ReadParticleFields

Spec == Init /\ [][Next]_vars

\* everything the life cycle owns, at rest
NoDataset ==
    /\ fmt = "dmp"
    /\ phase = "none"
    /\ hierarchy = NoHierarchy
    /\ field_offsets = Unset
    /\ last = NoCall

InitValid ==
    /\ fn \in FileNames
    /\ header \in HeaderReads
    /\ valid = NoValid
    /\ version = NoVersion
    /\ inifile = NoInifile
    /\ inicheck = NoInicheck
    /\ fmeta = NoMetadata
    /\ params = NoParams
    /\ NoDataset

NextValid == IsValidDmp \/ IsValidVtk

SpecValid == InitValid /\ [][NextValid]_vars

InitVersion ==
    /\ fn = DumpName
    /\ header \in {[raises |-> TRUE, text |-> <<>>]}
                    \cup {[raises |-> FALSE, text |-> t] : t \in VersionHeaders}
    /\ valid = NoValid
    /\ version = NoVersion
    /\ inifile = NoInifile
    /\ inicheck = NoInicheck
    /\ fmeta = NoMetadata
    /\ params = NoParams
    /\ NoDataset

NextVersion == GetVersion

SpecVersion == InitVersion /\ [][NextVersion]_vars

InitIni ==
    /\ fn = DumpName
    /\ header = NoHeader
    /\ valid = NoValid
    /\ version = NoVersion
    /\ inifile \in Inifiles
    /\ inicheck = NoInicheck
    /\ fmeta = NoMetadata
    /\ params = NoParams
    /\ NoDataset

NextIni == CheckInifile

SpecIni == InitIni /\ [][NextIni]_vars

InitParse ==
    /\ fn = DumpName
    /\ header = NoHeader
    /\ valid = NoValid
    /\ version = NoVersion
    /\ inifile = NoInifile
    /\ inicheck = NoInicheck
    /\ fmeta \in Metadata
    /\ params = NoParams
    /\ NoDataset

NextParse == ParseMetadata

SpecParse == InitParse /\ [][NextParse]_vars

----------------------------------------------------------------------------
(* Properties *)

\* a base name dump.0000.dmp ... dump.9999.dmp
IsDumpName(b) ==
    /\ Len(b) = 13
    /\ SubSeq(b, 1, 5) = DumpPrefix \o <<".">>
    /\ \A i \in 6..9 : b[i] \in AsciiDigits
    /\ SubSeq(b, 10, 13) = DmpSuffix

\* C1: IdefixDmpDataset._is_valid returns true for every base name
\* dump.0000.dmp ... dump.9999.dmp whose header contains "Idefix", and false
\* for every other base name whatever the header holds.
C1_DmpValidatorStrict ==
    (valid.done /\ valid.cls = "dmp") =>
        /\ (IsDumpName(Basename(fn)) /\ ~header.raises /\ Contains(IdefixMarker, header.text))
              => (~valid.raised /\ valid.ret)
        /\ ~IsDumpName(Basename(fn)) => (~valid.raised /\ ~valid.ret)

\* C2: neither validator lets an exception reach the caller: each call returns
\* a boolean, and returns false when the header read fails.
C2_DetectionNeverThrows ==
    valid.done =>
        /\ ~valid.raised
        /\ valid.ret \in BOOLEAN
        /\ header.raises => valid.ret = FALSE

C2_Witness ==
    /\ valid.done
    /\ valid.cls = "dmp"
    /\ header.raises
    /\ DmpNameMatch(Basename(fn))
    /\ ~valid.raised
    /\ valid.ret = FALSE

\* C3: geometry code 1 gives "cartesian", 2 "cylindrical", 3 "polar",
\* 4 "spherical"; any other code raises a lookup error and leaves the geometry
\* unset.
C3_GeometryTable ==
    params.done =>
        /\ fmeta.geometry = 1 => (params.raised = "" /\ params.geometry = "cartesian")
        /\ fmeta.geometry = 2 => (params.raised = "" /\ params.geometry = "cylindrical")
        /\ fmeta.geometry = 3 => (params.raised = "" /\ params.geometry = "polar")
        /\ fmeta.geometry = 4 => (params.raised = "" /\ params.geometry = "spherical")
        /\ fmeta.geometry \notin 1..4 => (params.raised = "KeyError" /\ params.geometry = "unset")

\* t is v<digits>.<digits>, then an optional ".", then digits, then characters
\* among the hyphen, the plus sign and the word characters
IsVersionToken(t) ==
    /\ Len(t) >= 4
    /\ t[1] = "v"
    /\ \E a \in 2..Len(t) :
         /\ \A k \in 2..a : IsDigit(t[k])
         /\ a + 2 <= Len(t)
         /\ t[a + 1] = "."
         /\ \E b \in (a + 2)..Len(t) :
              /\ \A k \in (a + 2)..b : IsDigit(t[k])
              /\ \E c \in {b, b + 1} :
                   /\ c = b + 1 => (c <= Len(t) /\ t[c] = ".")
                   /\ \E d \in c..Len(t) :
                        /\ \A k \in (c + 1)..d : IsDigit(t[k])
                        /\ \A k \in (d + 1)..Len(t) : IsTail(t[k])

VersionTokens(s) ==
    {ij \in (1..Len(s)) \X (1..Len(s)) :
        /\ ij[1] <= ij[2]
        /\ s[ij[1]] = "v"
        /\ IsVersionToken(SubSeq(s, ij[1], ij[2]))}

Version123Dev == <<"1", ".", "2", ".", "3", "-", "d", "e", "v">>

\* C4 as stated: header "Idefix 1.2.3-dev build" yields "1.2.3-dev", and a
\* header without a version token yields "unknown" and a warning, without
\* raising.
C4_VersionAsStated ==
    (version.done /\ ~header.raises) =>
        /\ ~version.raised
        /\ header.text = HeaderDev => (version.value = Version123Dev /\ ~version.warned)
        /\ header.text = HeaderUnknown => (version.value = Unknown /\ version.warned)

\* C4 amended: the recorded version is the leftmost, longest token
\* v<major>.<minor>[.][<patch>][suffix] of the header, its leading "v"
\* included ("Idefix v1.2.3-dev build" yields "v1.2.3-dev"); a header without
\* such a token ("Idefix unknown build", and also "Idefix 1.2.3-dev build")
\* yields "unknown" and a warning, without raising.
C4_VersionToken ==
    (version.done /\ ~header.raises) =>
        LET toks == VersionTokens(header.text)
        IN  /\ ~version.raised
            /\ IF toks = {}
               THEN version.warned /\ version.value = Unknown
               ELSE /\ ~version.warned
                    /\ \E ij \in toks :
                         /\ version.value = SubSeq(header.text, ij[1], ij[2])
                         /\ \A kl \in toks : ij[1] < kl[1] \/ (ij[1] = kl[1] /\ kl[2] <= ij[2])
            /\ header.text = HeaderVDev => version.value = <<"v">> \o Version123Dev
            /\ header.text = HeaderDev => (version.warned /\ version.value = Unknown)

C4_Witness ==
    /\ version.done
    /\ header.text = HeaderVDev
    /\ version.value = <<"v">> \o Version123Dev
    /\ ~version.warned

\* the spacing modes of the blocks an axis entry declares
BlockModes(vals) == {vals[3 * b + 1] : b \in 1..((Len(vals) - 2) \div 3)}
AxisSet == {Axes[k] : k \in 1..Len(Axes)}
Listed(kind, ax) ==
    /\ Len(inicheck.warnings) = 1
    /\ \E k \in DOMAIN inicheck.warnings[1].elems :
          inicheck.warnings[1].elems[k] = [kind |-> kind, ax |-> ax]

\* C5 as stated: with a configuration supplied, _parse_inifile never raises
\* and emits at most one warning, emitted exactly when some axis does not
\* declare exactly one block or declares a block whose mode is not "u"; the
\* warning lists every offending axis.
C5_GridWarningAsStated ==
    (inicheck.done /\ inifile.given) =>
        LET offending(ax) == inifile.grid[ax][1] # 1
                                \/ \E m \in BlockModes(inifile.grid[ax]) : m # "u"
        IN  /\ inicheck.raised = ""
            /\ Len(inicheck.warnings) <= 1
            /\ Len(inicheck.warnings) = 1 <=> \E ax \in AxisSet : offending(ax)
            /\ \A ax \in AxisSet : offending(ax) =>
                  (Listed("multiple blocks", ax) \/ Listed("non-uniform", ax))

\* C5 amended: with a configuration supplied that has a Grid section,
\* _parse_inifile never raises and emits at most one warning, emitted exactly
\* when some axis declares more than one block or declares a block whose mode
\* is not "u"; the warning lists every such axis, once for each of the two
\* issues it has.  A configuration without a Grid section raises KeyError and
\* emits no warning.
C5_GridWarning ==
    (inicheck.done /\ inifile.given) =>
        LET multiple(ax) == inifile.grid[ax][1] > 1
            nonuniform(ax) == \E m \in BlockModes(inifile.grid[ax]) : m # "u"
        IN  IF ~inifile.hasGrid
            THEN inicheck.raised = "KeyError" /\ inicheck.warnings = <<>>
            ELSE /\ inicheck.raised = ""
                 /\ Len(inicheck.warnings) <= 1
                 /\ Len(inicheck.warnings) = 1
                       <=> \E ax \in AxisSet : multiple(ax) \/ nonuniform(ax)
                 /\ \A ax \in AxisSet :
                       /\ multiple(ax) <=> Listed("multiple blocks", ax)
                       /\ nonuniform(ax) <=> Listed("non-uniform", ax)

C5_Witness ==
    /\ inicheck.done
    /\ inifile.given
    /\ inifile.hasGrid
    /\ inifile.grid["X1-grid"] = GridVals(2, <<"u", "l">>)
    /\ inifile.grid["X2-grid"] = GridVals(1, <<"u">>)
    /\ Listed("multiple blocks", "X1-grid")
    /\ Listed("non-uniform", "X1-grid")
    /\ ~Listed("multiple blocks", "X2-grid")

\* C6: the dimensionality is the number of axes of domain_dimensions, the
\* extents of the x1, x2 and x3 fields, whose extent exceeds 1.
C6_Dimensionality ==
    params.done =>
        /\ params.domain_dimensions = <<fmeta.x1, fmeta.x2, fmeta.x3>>
        /\ params.dimensionality
              = Cardinality({i \in 1..3 : params.domain_dimensions[i] > 1})

C6_Witness ==
    /\ params.done
    /\ params.domain_dimensions = <<3, 3, 1>>
    /\ params.dimensionality = 2

ParticleOps == {"_read_particle_coords", "_read_particle_fields"}

\* C7: _read_particle_coords and _read_particle_fields always raise
\* NotImplementedError and never return a result, empty or not.
C7_ParticleReadsFail ==
    last.op \in ParticleOps =>
        /\ last.raised = "NotImplementedError"
        /\ ~last.returned
        /\ last.data = EmptyData

C7_Witness ==
    /\ last.op = "_read_particle_fields"
    /\ last.raised = "NotImplementedError"
    /\ phase = "ready"

\* C8: the field-offset index is written by _parse_index only, holds an offset
\* for every field of the file from then on, is set whenever a fluid read
\* returns data, and no fluid read changes it.
C8_IndexWriteOnce ==
    /\ [](phase \in {"parsed", "populated", "ready"} =>
            (field_offsets.set /\ DOMAIN field_offsets.index = FieldNames))
    /\ [][/\ field_offsets' # field_offsets => ParseIndex
          /\ (last' # last /\ last'.op = "_read_fluid_selection") =>
                /\ field_offsets' = field_offsets
                /\ last'.returned => field_offsets.set]_vars

C8_Witness ==
    /\ last.op = "_read_fluid_selection"
    /\ last.returned
    /\ Len(last.fields) >= 1
    /\ field_offsets.set

\* C9: _read_fluid_selection called with one or more fields returns, for each
\* field, a buffer of `size` cells holding that field's selected values from
\* position 0 on, whatever other fields are asked for in the same call.
C9_ReadFillsEveryBuffer ==
    (last.op = "_read_fluid_selection" /\ Len(last.fields) >= 1) =>
        /\ last.returned
        /\ \A k \in 1..Len(last.fields) :
              last.data[last.fields[k]]
                 = Selected(last.mask,
                            ReadSingleField(GetFieldOffsetIndex(fmt)[last.fields[k]], NCells))

\* C10: a file accepted by the validator of either variant never reaches an
\* operation its variant leaves abstract.
C10_BothVariantsComplete ==
    (valid.done /\ valid.ret) => phase # "abstract"

====
